---------------------------- MODULE Spec2Model ----------------------------
(***************************************************************************)
(* Maze generation engine of maze-dataset                                  *)
(* (src/maze_dataset/generation/generators.py): gen_dfs, gen_wilson,       *)
(* gen_percolation and gen_dfs_percolation as one state machine.  One call *)
(* of one generator is one behaviour: Init draws the generator and its     *)
(* arguments, the actions are the steps of that generator's body, and      *)
(* every random draw is an existential choice.                             *)
(* make_numpy_collection (src/maze_dataset/dataset/rasterized.py) is a     *)
(* fifth kind of call and _remove_isolated_cells a sixth, each with its    *)
(* own variables and specification.                                        *)
(*                                                                         *)
(* A coordinate is <<row, col>>, zero-based as in the code.  A connection  *)
(* list is a function on <<dim, row, col>>: dim 0 is the downward edge of  *)
(* (row, col), dim 1 its rightward edge.                                   *)
(***************************************************************************)
EXTENDS Integers, Sequences, FiniteSets, TLC

VARIABLES
    func,                \* the generator that was called
    pc,                  \* position in the generator's body
    grid_shape,          \* <<rows, cols>>
    n_accessible_cells,  \* gen_dfs argument, None until resolved
    max_tree_depth,      \* gen_dfs argument, None until resolved
    do_forks,            \* gen_dfs argument
    start_coord,         \* argument, NoneCoord until resolved
    p,                   \* percolation probability, in units of 1/PDenom
    connection_list,     \* the connection list being built
    visited_cells,       \* gen_dfs: set of visited cells
    stack,               \* gen_dfs: the explicit stack
    current_tree_depth,  \* gen_dfs: depth counter
    connected,           \* gen_wilson: per-cell connected flag
    direction_matrix,    \* gen_wilson: per-cell recorded direction
    cells_left,          \* gen_wilson: counter of unconnected cells
    visited,             \* gen_wilson: cells of the walk in progress
    current,             \* gen_wilson: cursor of the walk / the retrace
    start,               \* gen_wilson: first cell of the walk
    generation_meta,     \* metadata of the maze being returned
    maze_dfs,            \* gen_dfs_percolation: the maze gen_dfs returned
    heap,                \* make_numpy_collection: the config objects, by address
    base_cfg,            \* make_numpy_collection argument: address of a config
    grid_sizes,          \* make_numpy_collection argument
    key_fmt,             \* make_numpy_collection argument, as its pieces
    size_iter,           \* make_numpy_collection: sizes the loop has yet to take
    datasets,            \* make_numpy_collection: the dict, in insertion order
    output,              \* make_numpy_collection: the dict returned
    image,               \* _remove_isolated_cells argument
    output_image         \* _remove_isolated_cells result

vars == <<func, pc, grid_shape, n_accessible_cells, max_tree_depth, do_forks,
          start_coord, p, connection_list, visited_cells, stack,
          current_tree_depth, connected, direction_matrix, cells_left,
          visited, current, start, generation_meta, maze_dfs, heap, base_cfg,
          grid_sizes, key_fmt, size_iter, datasets, output, image,
          output_image>>

dfsArgs == <<grid_shape, do_forks, p>>
dfsLocals == <<visited_cells, stack, current_tree_depth>>
wilsonLocals == <<connected, direction_matrix, cells_left, visited, current, start>>
collectionVars ==
    <<heap, base_cfg, grid_sizes, key_fmt, size_iter, datasets, output>>
rasterVars == <<image, output_image>>

----------------------------------------------------------------------------
(* Bounds of the model *)

\* gen_dfs is run on every grid of at most this many cells
DfsMaxCells == 9
\* gen_wilson is run on every grid of at most this many cells
WilsonMaxCells == 6
\* gen_percolation and gen_dfs_percolation: grids of at most this many cells
PercMaxCells == 4
\* explicit n_accessible_cells arguments are 0..MaxAccessible
MaxAccessible == 9
\* explicit max_tree_depth arguments are 0..MaxTreeDepth
MaxTreeDepth == 7
\* make_numpy_collection: grid_n and the grid sizes range over 1..MaxGridN
MaxGridN == 3
\* make_numpy_collection: grid_sizes has at most this many entries
MaxSizes == 2
\* make_numpy_collection: n_mazes of the base config is 1..MaxMazes
MaxMazes == 2
\* _remove_isolated_cells is run on every image of at most this many pixels
MaxPixels == 9
\* malformed grid shapes have dimensions -1..BadMaxDim, one of them below 1
BadMaxDim == 2
\* probabilities and uniform draws are multiples of 1/PDenom
PDenom == 2
\* gen_dfs_percolation: explicit n_accessible_cells and max_tree_depth
\* arguments are 0..HybridMaxArg
HybridMaxArg == 2

----------------------------------------------------------------------------
(* Values *)

\* Python's None for an integer argument
None == -1
\* Python's None for a coordinate argument
NoneCoord == <<None, None>>
\* placeholder of a local that is not yet bound
Unbound == <<>>
NoMeta == [func_name |-> "none"]
NoMaze == [connection_list |-> <<>>, generation_meta |-> NoMeta]

\* no call of _remove_isolated_cells is in progress
RasterIdle == image = Unbound /\ output_image = Unbound

\* no call of make_numpy_collection is in progress
CollectionIdle ==
    /\ heap = <<>>
    /\ base_cfg = None
    /\ grid_sizes = <<>>
    /\ key_fmt = <<>>
    /\ size_iter = <<>>
    /\ datasets = <<>>
    /\ output = Unbound

Max(a, b) == IF a >= b THEN a ELSE b

Shapes(maxCells) ==
    {s \in (1..maxCells) \X (1..maxCells) : s[1] * s[2] <= maxCells}

Cells(shape) == (0..(shape[1] - 1)) \X (0..(shape[2] - 1))

Indices(shape) == (0..1) \X (0..(shape[1] - 1)) \X (0..(shape[2] - 1))

InBounds(shape, c) ==
    /\ 0 <= c[1] /\ c[1] < shape[1]
    /\ 0 <= c[2] /\ c[2] < shape[2]

\* np.zeros accepts the shape: no negative dimension
NonNegative(shape) == shape[1] >= 0 /\ shape[2] >= 0

\* np.zeros((2, rows, cols), dtype=np.bool_)
ZerosConnectionList(shape) == [i \in Indices(shape) |-> FALSE]

\* the four offsets of maze_dataset.maze.lattice_maze.NEIGHBORS_MASK
NEIGHBORS_MASK == {<<0, 1>>, <<0, -1>>, <<1, 0>>, <<-1, 0>>}

\* _random_start_coord: the coordinates the call can return.
\* np.random.randint(0, np.maximum(grid_shape - 1, 1)) has an exclusive
\* upper bound, so each component is drawn from 0 .. max(n - 1, 1) - 1.
random_start_coord(shape, sc) ==
    IF sc = NoneCoord
    THEN (0..(Max(shape[1] - 1, 1) - 1)) \X (0..(Max(shape[2] - 1, 1) - 1))
    ELSE {sc}

\* start_coord arguments: None or an in-bounds coordinate
StartArgs(shape) == Cells(shape) \cup {NoneCoord}

----------------------------------------------------------------------------
(* Graph of a connection list (used by the walker and by the properties) *)

\* cl has an open edge between the neighbouring cells a and b
Linked(cl, shape, a, b) ==
    \/ b = <<a[1] + 1, a[2]>> /\ cl[<<0, a[1], a[2]>>]
    \/ b = <<a[1], a[2] + 1>> /\ cl[<<1, a[1], a[2]>>]
    \/ a = <<b[1] + 1, b[2]>> /\ cl[<<0, b[1], b[2]>>]
    \/ a = <<b[1], b[2] + 1>> /\ cl[<<1, b[1], b[2]>>]

OpenNeighbors(cl, shape, a) ==
    {b \in {<<a[1] + d[1], a[2] + d[2]>> : d \in NEIGHBORS_MASK} :
        InBounds(shape, b) /\ Linked(cl, shape, a, b)}

RECURSIVE Walk(_, _, _, _)
Walk(cl, shape, frontier, seen) ==
    IF frontier = {} THEN seen
    ELSE LET new == (UNION {OpenNeighbors(cl, shape, c) : c \in frontier}) \ seen
         IN  Walk(cl, shape, new, seen \cup new)

\* LatticeMaze.gen_connected_component_from: frontier expansion from c_start
gen_connected_component_from(cl, shape, c_start) ==
    Walk(cl, shape, {c_start}, {c_start})

\* _fill_edges_with_walls: the two boundary slices forced to False
fill_edges_with_walls(cl, shape) ==
    [i \in DOMAIN cl |->
        IF \/ (i[1] = 0 /\ i[2] = shape[1] - 1)
           \/ (i[1] = 1 /\ i[3] = shape[2] - 1)
        THEN FALSE ELSE cl[i]]

----------------------------------------------------------------------------
(* gen_dfs *)

\* the in-bounds unvisited neighbours of cur, each with its delta
UnvisitedNeighborsDeltas(shape, seen, cur) ==
    {nd \in {<<(<<cur[1] + d[1], cur[2] + d[2]>>), d>> : d \in NEIGHBORS_MASK} :
        /\ nd[1] \notin seen
        /\ InBounds(shape, nd[1])}

\* mutant: the counter compared with max_tree_depth itself
DepthAllowsNoHalving(depth, maxDepth) == depth <= maxDepth

\* current_tree_depth <= max_tree_depth / 2 (true division)
DepthAllows(depth, maxDepth) == 2 * depth <= maxDepth

\* mutant: the two axes of the connection list exchanged
DeltaDimSwapped(delta) == IF delta[1] # 0 THEN 1 ELSE 0

\* dim = np.argmax(np.abs(delta))
DeltaDim(delta) == IF delta[1] # 0 THEN 0 ELSE 1

\* mutant: the edge is always stored at the current cell
ClistNodeAlwaysCurrent(cur, chosen, delta) == cur

\* clist_node = current_coord if delta.sum() > 0 else chosen_neighbor
ClistNode(cur, chosen, delta) == IF delta[1] + delta[2] > 0 THEN cur ELSE chosen

\* connection_list[dim, clist_node[0], clist_node[1]] = True
AddConnection(cl, cur, chosen, delta) ==
    LET node == ClistNode(cur, chosen, delta)
    IN  [cl EXCEPT ![<<DeltaDim(delta), node[1], node[2]>>] = TRUE]

\* mutant: the current cell is never pushed back
PushStackNeverForks(rest, cur, chosen, forks) == Append(rest, chosen)

\* mutant: the current cell is pushed back whatever do_forks says
PushStackAlwaysForks(rest, cur, chosen, forks) ==
    Append(Append(rest, cur), chosen)

\* stack after the pop, the optional re-push and the push of the neighbour
PushStack(rest, cur, chosen, forks) ==
    IF forks THEN Append(Append(rest, cur), chosen) ELSE Append(rest, chosen)

\* the set the loop starts from: visited_cells.add(tuple(start_coord))
InitialVisited(sc) == {sc}

\* mutant: the cell count compared with <= instead of <
DfsLoopCondInclusive ==
    /\ stack # <<>>
    /\ Cardinality(visited_cells) <= n_accessible_cells

\* while stack and (len(visited_cells) < n_accessible_cells)
DfsLoopCond ==
    /\ stack # <<>>
    /\ Cardinality(visited_cells) < n_accessible_cells

\* mutant: fully_connected recorded as True whatever was visited
DfsMetaAlwaysConnected ==
    [func_name |-> "gen_dfs",
     grid_shape |-> grid_shape,
     start_coord |-> start_coord,
     n_accessible_cells |-> n_accessible_cells,
     max_tree_depth |-> max_tree_depth,
     fully_connected |-> TRUE,
     visited_cells |-> visited_cells]

\* lines 135-143: generation_meta of the maze gen_dfs returns
DfsMeta ==
    [func_name |-> "gen_dfs",
     grid_shape |-> grid_shape,
     start_coord |-> start_coord,
     n_accessible_cells |-> n_accessible_cells,
     max_tree_depth |-> max_tree_depth,
     fully_connected |-> (Cardinality(visited_cells) = n_accessible_cells),
     visited_cells |-> visited_cells]

\* lines 61-84: defaults, start coordinate, empty maze, stack, depth counter
DfsEntry ==
    /\ pc = "dfs_entry"
    /\ NonNegative(grid_shape)
    /\ LET n_total_cells == grid_shape[1] * grid_shape[2]
       IN  /\ n_accessible_cells' =
                 IF n_accessible_cells = None THEN n_total_cells
                 ELSE n_accessible_cells
           /\ max_tree_depth' =
                 IF max_tree_depth = None THEN 2 * n_total_cells
                 ELSE max_tree_depth
    /\ \E sc \in random_start_coord(grid_shape, start_coord) :
          /\ start_coord' = sc
          /\ visited_cells' = InitialVisited(sc)
          /\ stack' = <<sc>>
    /\ connection_list' = ZerosConnectionList(grid_shape)
    /\ current_tree_depth' = 1
    /\ pc' = "dfs_loop"
    /\ UNCHANGED <<func, collectionVars, rasterVars, dfsArgs, wilsonLocals, generation_meta, maze_dfs>>

\* one loop iteration, if-branch (lines 89-129): carve to a random neighbour
DfsCarve ==
    /\ pc = "dfs_loop"
    /\ DfsLoopCond
    /\ LET current_coord == stack[Len(stack)]
           rest == SubSeq(stack, 1, Len(stack) - 1)
           nds == UnvisitedNeighborsDeltas(grid_shape, visited_cells, current_coord)
       IN  /\ nds # {}
           /\ DepthAllows(current_tree_depth, max_tree_depth)
           /\ \E nd \in nds :
                 /\ connection_list' =
                       AddConnection(connection_list, current_coord, nd[1], nd[2])
                 /\ visited_cells' = visited_cells \cup {nd[1]}
                 /\ stack' = PushStack(rest, current_coord, nd[1], do_forks)
    /\ current_tree_depth' = current_tree_depth + 1
    /\ UNCHANGED <<func, collectionVars, rasterVars, pc, dfsArgs, n_accessible_cells, max_tree_depth,
                   start_coord, wilsonLocals, generation_meta, maze_dfs>>

\* one loop iteration, else-branch (lines 89-107, 130-131): backtrack
DfsBacktrack ==
    /\ pc = "dfs_loop"
    /\ DfsLoopCond
    /\ LET current_coord == stack[Len(stack)]
           nds == UnvisitedNeighborsDeltas(grid_shape, visited_cells, current_coord)
       IN  ~(nds # {} /\ DepthAllows(current_tree_depth, max_tree_depth))
    /\ stack' = SubSeq(stack, 1, Len(stack) - 1)
    /\ current_tree_depth' = current_tree_depth - 1
    /\ UNCHANGED <<func, collectionVars, rasterVars, pc, dfsArgs, n_accessible_cells, max_tree_depth,
                   start_coord, connection_list, visited_cells, wilsonLocals,
                   generation_meta, maze_dfs>>

\* loop exit and return (lines 87, 133-144); inside gen_dfs_percolation the
\* maze goes back to the caller (line 306)
DfsReturn ==
    /\ pc = "dfs_loop"
    /\ ~DfsLoopCond
    /\ generation_meta' = DfsMeta
    /\ IF func = "gen_dfs_percolation"
       THEN /\ pc' = "hybrid_percolate"
            /\ maze_dfs' = [connection_list |-> connection_list,
                            generation_meta |-> DfsMeta]
       ELSE /\ pc' = "done"
            /\ UNCHANGED maze_dfs
    /\ UNCHANGED <<func, collectionVars, rasterVars, dfsArgs, n_accessible_cells, max_tree_depth,
                   start_coord, connection_list, dfsLocals, wilsonLocals>>

InitDfs ==
    /\ func = "gen_dfs"
    /\ pc = "dfs_entry"
    /\ grid_shape \in Shapes(DfsMaxCells)
    /\ n_accessible_cells \in {None} \cup (0..MaxAccessible)
    /\ max_tree_depth \in {None} \cup (0..MaxTreeDepth)
    /\ do_forks \in BOOLEAN
    /\ start_coord \in StartArgs(grid_shape)
    /\ p = 0
    /\ connection_list = Unbound
    /\ visited_cells = {}
    /\ stack = <<>>
    /\ current_tree_depth = 0
    /\ connected = Unbound
    /\ direction_matrix = Unbound
    /\ cells_left = 0
    /\ visited = {}
    /\ current = Unbound
    /\ start = Unbound
    /\ generation_meta = NoMeta
    /\ maze_dfs = NoMaze
    /\ CollectionIdle
    /\ RasterIdle

NextDfs == DfsEntry \/ DfsCarve \/ DfsBacktrack \/ DfsReturn

SpecDfs == InitDfs /\ [][NextDfs]_vars

----------------------------------------------------------------------------
(* gen_wilson *)

\* direction_matrix value written where the walk ended
Sentinel == 4

\* the local function neighbor(current, direction): a cell, or Unbound for
\* Python's None (a direction outside 0..3, or a cell outside the grid)
neighbor(shape, cur, direction) ==
    LET cell == CASE direction = 0 -> <<cur[1], cur[2] - 1>>
                  [] direction = 1 -> <<cur[1], cur[2] + 1>>
                  [] direction = 2 -> <<cur[1] - 1, cur[2]>>
                  [] direction = 3 -> <<cur[1] + 1, cur[2]>>
                  [] OTHER -> Unbound
    IN  IF cell # Unbound /\ InBounds(shape, cell) THEN cell ELSE Unbound

\* lines 210-212: the first direction, counting up from the drawn one
\* modulo 4, whose neighbour is inside the grid
RECURSIVE Reroll(_, _, _, _)
Reroll(shape, cur, direction, tries) ==
    IF neighbor(shape, cur, direction) # Unbound \/ tries = 0 THEN direction
    ELSE Reroll(shape, cur, (direction + 1) % 4, tries - 1)

\* the walk stops at current: it is connected, or already on this walk
WalkStops == connected[current] \/ current \in visited

\* mutant: the retrace does not mark the cell
MarkConnectedSkipped(conn, cur) == conn

\* line 223: connected[tuple(current)] = True
MarkConnected(conn, cur) == [conn EXCEPT ![cur] = TRUE]

\* lines 230-237: the edge between cur and next_cell, stored at its owner
OpenEdge(cl, cur, next_cell, direction) ==
    CASE direction = 0 -> [cl EXCEPT ![<<1, next_cell[1], next_cell[2]>>] = TRUE]
      [] direction = 1 -> [cl EXCEPT ![<<1, cur[1], cur[2]>>] = TRUE]
      [] direction = 2 -> [cl EXCEPT ![<<0, next_cell[1], next_cell[2]>>] = TRUE]
      [] direction = 3 -> [cl EXCEPT ![<<0, cur[1], cur[2]>>] = TRUE]
      [] OTHER -> cl

\* lines 243-247: generation_meta of the maze gen_wilson returns
WilsonMeta ==
    [func_name |-> "gen_wilson",
     grid_shape |-> grid_shape,
     fully_connected |-> TRUE]

\* lines 175-187: empty maze, one random cell marked connected
WilsonEntry ==
    /\ pc = "wilson_entry"
    /\ connection_list' = ZerosConnectionList(grid_shape)
    /\ \E seed \in Cells(grid_shape) :
          connected' = [c \in Cells(grid_shape) |-> c = seed]
    /\ direction_matrix' = [c \in Cells(grid_shape) |-> 0]
    /\ cells_left' = grid_shape[1] * grid_shape[2] - 1
    /\ pc' = "wilson_outer"
    /\ UNCHANGED <<func, collectionVars, rasterVars, dfsArgs, n_accessible_cells, max_tree_depth,
                   start_coord, dfsLocals, visited, current, start,
                   generation_meta, maze_dfs>>

\* lines 188-197: a new outer iteration; cells are drawn until an
\* unconnected one comes up
WilsonPickStart ==
    /\ pc = "wilson_outer"
    /\ cells_left > 0
    /\ visited' = {}
    /\ \E c \in Cells(grid_shape) :
          /\ ~connected[c]
          /\ current' = c
          /\ start' = c
    /\ pc' = "wilson_walk"
    /\ UNCHANGED <<func, collectionVars, rasterVars, dfsArgs, n_accessible_cells, max_tree_depth,
                   start_coord, connection_list, dfsLocals, connected,
                   direction_matrix, cells_left, generation_meta, maze_dfs>>

\* lines 200-215: one step of the random walk
WilsonWalkStep ==
    /\ pc = "wilson_walk"
    /\ ~connected[current]
    /\ current \notin visited
    /\ visited' = visited \cup {current}
    /\ \E drawn \in 0..3 :
          LET direction == Reroll(grid_shape, current, drawn, 4)
          IN  /\ neighbor(grid_shape, current, direction) # Unbound
              /\ direction_matrix' =
                    [direction_matrix EXCEPT ![current] = direction]
              /\ current' = neighbor(grid_shape, current, direction)
    /\ UNCHANGED <<func, collectionVars, rasterVars, pc, dfsArgs, n_accessible_cells, max_tree_depth,
                   start_coord, connection_list, dfsLocals, connected,
                   cells_left, start, generation_meta, maze_dfs>>

\* lines 200, 217-220: the walk reached a connected cell
WilsonWalkReachedConnected ==
    /\ pc = "wilson_walk"
    /\ connected[current]
    /\ direction_matrix' = [direction_matrix EXCEPT ![current] = Sentinel]
    /\ current' = start
    /\ pc' = "wilson_retrace"
    /\ UNCHANGED <<func, collectionVars, rasterVars, dfsArgs, n_accessible_cells, max_tree_depth,
                   start_coord, connection_list, dfsLocals, connected,
                   cells_left, visited, start, generation_meta, maze_dfs>>

\* lines 201-203, 217-220: the walk came back to one of its own cells
WilsonWalkLoopDetected ==
    /\ pc = "wilson_walk"
    /\ ~connected[current]
    /\ current \in visited
    /\ direction_matrix' = [direction_matrix EXCEPT ![current] = Sentinel]
    /\ current' = start
    /\ pc' = "wilson_retrace"
    /\ UNCHANGED <<func, collectionVars, rasterVars, dfsArgs, n_accessible_cells, max_tree_depth,
                   start_coord, connection_list, dfsLocals, connected,
                   cells_left, visited, start, generation_meta, maze_dfs>>

\* lines 221-239: one step of the retrace
WilsonRetraceStep ==
    /\ pc = "wilson_retrace"
    /\ ~connected[current]
    /\ LET direction == direction_matrix[current]
           next_cell == neighbor(grid_shape, current, direction)
       IN  /\ connected' = MarkConnected(connected, current)
           /\ cells_left' = cells_left - 1
           /\ IF next_cell = Unbound
              THEN /\ pc' = "wilson_outer"
                   /\ UNCHANGED <<connection_list, current>>
              ELSE /\ connection_list' =
                         OpenEdge(connection_list, current, next_cell, direction)
                   /\ current' = next_cell
                   /\ pc' = pc
    /\ UNCHANGED <<func, collectionVars, rasterVars, dfsArgs, n_accessible_cells, max_tree_depth,
                   start_coord, dfsLocals, direction_matrix, visited, start,
                   generation_meta, maze_dfs>>

\* line 221: the retrace stands on a connected cell
WilsonRetraceEnd ==
    /\ pc = "wilson_retrace"
    /\ connected[current]
    /\ pc' = "wilson_outer"
    /\ UNCHANGED <<func, collectionVars, rasterVars, dfsArgs, n_accessible_cells, max_tree_depth,
                   start_coord, connection_list, dfsLocals, wilsonLocals,
                   generation_meta, maze_dfs>>

\* lines 188, 241-248
WilsonReturn ==
    /\ pc = "wilson_outer"
    /\ ~(cells_left > 0)
    /\ generation_meta' = WilsonMeta
    /\ pc' = "done"
    /\ UNCHANGED <<func, collectionVars, rasterVars, dfsArgs, n_accessible_cells, max_tree_depth,
                   start_coord, connection_list, dfsLocals, wilsonLocals,
                   maze_dfs>>

InitWilson ==
    /\ func = "gen_wilson"
    /\ pc = "wilson_entry"
    /\ grid_shape \in Shapes(WilsonMaxCells)
    /\ n_accessible_cells = None
    /\ max_tree_depth = None
    /\ do_forks = TRUE
    /\ start_coord = NoneCoord
    /\ p = 0
    /\ connection_list = Unbound
    /\ visited_cells = {}
    /\ stack = <<>>
    /\ current_tree_depth = 0
    /\ connected = Unbound
    /\ direction_matrix = Unbound
    /\ cells_left = 0
    /\ visited = {}
    /\ current = Unbound
    /\ start = Unbound
    /\ generation_meta = NoMeta
    /\ maze_dfs = NoMaze
    /\ CollectionIdle
    /\ RasterIdle

NextWilson ==
    \/ WilsonEntry
    \/ WilsonPickStart
    \/ WilsonWalkStep
    \/ WilsonWalkReachedConnected
    \/ WilsonWalkLoopDetected
    \/ WilsonRetraceStep
    \/ WilsonRetraceEnd
    \/ WilsonReturn

SpecWilson == InitWilson /\ [][NextWilson]_vars

----------------------------------------------------------------------------
(* gen_percolation *)

\* p arguments: multiples of 1/PDenom from -1/PDenom to 1 + 1/PDenom
PArgs == (-1)..(PDenom + 1)

\* values of one draw of np.random.rand, in units of 1/PDenom: the least and
\* the greatest multiple of 1/PDenom in [0, 1).  A draw matters only through
\* its comparison with p, and for every p of PArgs one of the two is below
\* p whenever some value of [0, 1) is, and one is not whenever some is not.
Draws == {0, PDenom - 1}

\* np.random.rand(lattice_dim, *grid_shape): every array of draws
RandSamples(shape) == [Indices(shape) -> Draws]

\* mutant: sample <= p
LessOrEqualP(sample, prob) == [i \in DOMAIN sample |-> sample[i] <= prob]

\* sample < p, elementwise
LessThanP(sample, prob) == [i \in DOMAIN sample |-> sample[i] < prob]

\* mutant: only the lower end of the range is asserted
ValidPLowerOnly(prob) == prob >= 0

\* assert p >= 0 and p <= 1
ValidP(prob) == prob >= 0 /\ prob <= PDenom

\* mutant: the component is walked from the origin, not from start_coord
PercolationMetaFromOrigin(cl, shape, prob, sc) ==
    [func_name |-> "gen_percolation",
     grid_shape |-> shape,
     percolation_p |-> prob,
     start_coord |-> sc,
     visited_cells |-> gen_connected_component_from(cl, shape, <<0, 0>>)]

\* lines 276-288: the metadata of the percolation maze
PercolationMeta(cl, shape, prob, sc) ==
    [func_name |-> "gen_percolation",
     grid_shape |-> shape,
     percolation_p |-> prob,
     start_coord |-> sc,
     visited_cells |-> gen_connected_component_from(cl, shape, sc)]

\* line 267: the assertion fails, AssertionError leaves the call
PercAssertFails ==
    /\ pc = "perc_entry"
    /\ ~ValidP(p)
    /\ pc' = "error"
    /\ UNCHANGED <<func, collectionVars, rasterVars, dfsArgs, n_accessible_cells, max_tree_depth,
                   start_coord, connection_list, dfsLocals, wilsonLocals,
                   generation_meta, maze_dfs>>

\* lines 267-290: start coordinate, sample, boundary walls, component
PercGenerate ==
    /\ pc = "perc_entry"
    /\ ValidP(p)
    /\ \E sc \in random_start_coord(grid_shape, start_coord) :
       \E sample \in RandSamples(grid_shape) :
          LET cl == fill_edges_with_walls(LessThanP(sample, p), grid_shape)
          IN  /\ start_coord' = sc
              /\ connection_list' = cl
              /\ generation_meta' = PercolationMeta(cl, grid_shape, p, sc)
    /\ pc' = "done"
    /\ UNCHANGED <<func, collectionVars, rasterVars, dfsArgs, n_accessible_cells, max_tree_depth,
                   dfsLocals, wilsonLocals, maze_dfs>>

InitPerc ==
    /\ func = "gen_percolation"
    /\ pc = "perc_entry"
    /\ grid_shape \in Shapes(PercMaxCells)
    /\ n_accessible_cells = None
    /\ max_tree_depth = None
    /\ do_forks = TRUE
    /\ start_coord \in StartArgs(grid_shape)
    /\ p \in PArgs
    /\ connection_list = Unbound
    /\ visited_cells = {}
    /\ stack = <<>>
    /\ current_tree_depth = 0
    /\ connected = Unbound
    /\ direction_matrix = Unbound
    /\ cells_left = 0
    /\ visited = {}
    /\ current = Unbound
    /\ start = Unbound
    /\ generation_meta = NoMeta
    /\ maze_dfs = NoMaze
    /\ CollectionIdle
    /\ RasterIdle

NextPerc == PercAssertFails \/ PercGenerate

SpecPerc == InitPerc /\ [][NextPerc]_vars

----------------------------------------------------------------------------
(* gen_dfs_percolation *)

\* mutant: the two connection lists are and-ed
LogicalAnd(a, b) == [i \in DOMAIN a |-> a[i] /\ b[i]]

\* lines 320-322: np.logical_or(maze.connection_list, connection_list_perc)
LogicalOr(a, b) == [i \in DOMAIN a |-> a[i] \/ b[i]]

\* mutant: visited_cells is left as the DFS phase wrote it
HybridMetaStaleVisited(meta, cl, shape, prob, sc) ==
    [k \in DOMAIN meta \cup {"percolation_p"} |->
        CASE k = "func_name" -> "gen_dfs_percolation"
          [] k = "percolation_p" -> prob
          [] OTHER -> meta[k]]

\* lines 324-328: the metadata written over the DFS maze's
HybridMeta(meta, cl, shape, prob, sc) ==
    [k \in DOMAIN meta \cup {"percolation_p"} |->
        CASE k = "func_name" -> "gen_dfs_percolation"
          [] k = "percolation_p" -> prob
          [] k = "visited_cells" -> gen_connected_component_from(cl, shape, sc)
          [] OTHER -> meta[k]]

\* lines 302-312: the start coordinate is resolved, then gen_dfs is called
HybridEntry ==
    /\ pc = "hybrid_entry"
    /\ start_coord' \in random_start_coord(grid_shape, start_coord)
    /\ pc' = "dfs_entry"
    /\ UNCHANGED <<func, collectionVars, rasterVars, dfsArgs, n_accessible_cells, max_tree_depth,
                   connection_list, dfsLocals, wilsonLocals, generation_meta,
                   maze_dfs>>

\* lines 314-330: sample, boundary walls, merge, metadata, return
HybridPercolate ==
    /\ pc = "hybrid_percolate"
    /\ \E sample \in RandSamples(grid_shape) :
          LET connection_list_perc ==
                  fill_edges_with_walls(LessThanP(sample, p), grid_shape)
              merged == LogicalOr(maze_dfs.connection_list, connection_list_perc)
          IN  /\ connection_list' = merged
              /\ generation_meta' =
                    HybridMeta(maze_dfs.generation_meta, merged, grid_shape,
                               p, start_coord)
    /\ pc' = "done"
    /\ UNCHANGED <<func, collectionVars, rasterVars, dfsArgs, n_accessible_cells, max_tree_depth,
                   start_coord, dfsLocals, wilsonLocals, maze_dfs>>

InitHybrid ==
    /\ func = "gen_dfs_percolation"
    /\ pc = "hybrid_entry"
    /\ grid_shape \in Shapes(PercMaxCells)
    /\ n_accessible_cells \in {None} \cup (0..HybridMaxArg)
    /\ max_tree_depth \in {None} \cup (0..HybridMaxArg)
    /\ do_forks = TRUE
    /\ start_coord \in StartArgs(grid_shape)
    /\ p \in PArgs
    /\ connection_list = Unbound
    /\ visited_cells = {}
    /\ stack = <<>>
    /\ current_tree_depth = 0
    /\ connected = Unbound
    /\ direction_matrix = Unbound
    /\ cells_left = 0
    /\ visited = {}
    /\ current = Unbound
    /\ start = Unbound
    /\ generation_meta = NoMeta
    /\ maze_dfs = NoMaze
    /\ CollectionIdle
    /\ RasterIdle

NextHybrid ==
    \/ HybridEntry
    \/ DfsEntry
    \/ DfsCarve
    \/ DfsBacktrack
    \/ DfsReturn
    \/ HybridPercolate

SpecHybrid == InitHybrid /\ [][NextHybrid]_vars

----------------------------------------------------------------------------
(* gen_dfs and gen_wilson on a grid shape with a dimension below 1 *)

BadShapes ==
    {s \in ((-1)..BadMaxDim) \X ((-1)..BadMaxDim) : s[1] <= 0 \/ s[2] <= 0}

\* lines 74-76: np.zeros raises ValueError on a negative dimension
DfsEntryFails ==
    /\ pc = "dfs_entry"
    /\ ~NonNegative(grid_shape)
    /\ pc' = "error"
    /\ UNCHANGED <<func, collectionVars, rasterVars, dfsArgs, n_accessible_cells, max_tree_depth,
                   start_coord, connection_list, dfsLocals, wilsonLocals,
                   generation_meta, maze_dfs>>

\* lines 179-185: np.zeros raises ValueError on a negative dimension, and
\* random.randint(0, rows - 1), random.randint(0, cols - 1) raise ValueError
\* on an empty range
WilsonEntryFails ==
    /\ pc = "wilson_entry"
    /\ ~(grid_shape[1] >= 1 /\ grid_shape[2] >= 1)
    /\ pc' = "error"
    /\ UNCHANGED <<func, collectionVars, rasterVars, dfsArgs, n_accessible_cells, max_tree_depth,
                   start_coord, connection_list, dfsLocals, wilsonLocals,
                   generation_meta, maze_dfs>>

InitBadShape ==
    /\ func \in {"gen_dfs", "gen_wilson"}
    /\ pc = IF func = "gen_dfs" THEN "dfs_entry" ELSE "wilson_entry"
    /\ grid_shape \in BadShapes
    /\ n_accessible_cells \in
          IF func = "gen_dfs" THEN {None} \cup (0..HybridMaxArg) ELSE {None}
    /\ max_tree_depth \in
          IF func = "gen_dfs" THEN {None} \cup (0..HybridMaxArg) ELSE {None}
    /\ do_forks \in IF func = "gen_dfs" THEN BOOLEAN ELSE {TRUE}
    /\ start_coord \in
          IF func = "gen_dfs" THEN {NoneCoord, <<0, 0>>} ELSE {NoneCoord}
    /\ p = 0
    /\ connection_list = Unbound
    /\ visited_cells = {}
    /\ stack = <<>>
    /\ current_tree_depth = 0
    /\ connected = Unbound
    /\ direction_matrix = Unbound
    /\ cells_left = 0
    /\ visited = {}
    /\ current = Unbound
    /\ start = Unbound
    /\ generation_meta = NoMeta
    /\ maze_dfs = NoMaze
    /\ CollectionIdle
    /\ RasterIdle

NextBadShape ==
    \/ DfsEntry
    \/ DfsEntryFails
    \/ DfsBacktrack
    \/ DfsReturn
    \/ WilsonEntryFails

SpecBadShape == InitBadShape /\ [][NextBadShape]_vars

----------------------------------------------------------------------------
(* make_numpy_collection (src/maze_dataset/dataset/rasterized.py) *)

\* _RASTERIZED_CFG_ADDED_PARAMS
RASTERIZED_CFG_ADDED_PARAMS ==
    {"remove_isolated_cells", "extend_pixels", "endpoints_as_open"}

\* the fields of a config class that the collection reads or writes
FieldsOf(class) ==
    IF class = "RasterizedMazeDatasetConfig"
    THEN {"grid_n", "n_mazes"} \cup RASTERIZED_CFG_ADDED_PARAMS
    ELSE {"grid_n", "n_mazes"}

\* defaults of the fields RasterizedMazeDatasetConfig adds
FieldDefault(k) == k \in {"remove_isolated_cells", "extend_pixels"}

\* cfg.serialize(): the fields as a dict, tagged with the class
serialize(obj) ==
    [k \in DOMAIN obj.fields \cup {"__format__"} |->
        IF k = "__format__" THEN obj.class ELSE obj.fields[k]]

\* <class>.load(data): a new object of the class; fields come from the
\* dict, a field the dict lacks takes its default, other keys are dropped
load(class, data) ==
    [class |-> class,
     fields |-> [k \in FieldsOf(class) |->
                    IF k \in DOMAIN data THEN data[k] ELSE FieldDefault(k)]]

\* {**a, **b}
Merge(a, b) ==
    [k \in DOMAIN a \cup DOMAIN b |-> IF k \in DOMAIN b THEN b[k] ELSE a[k]]

\* mutant: the size is not written to the copy
SetGridNSkipped(obj, size) == obj

\* cfg_temp.grid_n = size
SetGridN(obj, size) == [obj EXCEPT !.fields.grid_n = size]

\* MazeDataset.from_config: n_mazes mazes on a grid_n x grid_n grid, held
\* with the config object they were made from
from_config(h, cfg) ==
    [cfg |-> cfg,
     mazes |-> [i \in 1..h[cfg].fields.n_mazes |->
                   [grid_n |-> h[cfg].fields.grid_n, index |-> i]]]

\* RasterizedMazeDataset.__getitem__: the problem and the solution picture
\* of one maze
getitem(dataset, idx) ==
    <<[kind |-> "problem", maze |-> dataset.mazes[idx]],
      [kind |-> "solution", maze |-> dataset.mazes[idx]]>>

\* RasterizedMazeDataset.get_batch(None): the stacked problems followed by
\* the stacked solutions
get_batch(dataset) ==
    [i \in 1..Len(dataset.mazes) |-> getitem(dataset, i)[1]] \o
    [i \in 1..Len(dataset.mazes) |-> getitem(dataset, i)[2]]

\* the text one piece of a format string contributes
FormatPiece(piece, size) == IF piece = "{size}" THEN ToString(size) ELSE piece

\* key_fmt.format(size=size)
RECURSIVE Format(_, _)
Format(fmt, size) ==
    IF fmt = <<>> THEN ""
    ELSE FormatPiece(Head(fmt), size) \o Format(Tail(fmt), size)

\* datasets[size] = dataset on a dict kept as a sequence of <<key, value>>:
\* a key already present keeps its place
SetItem(dict, key, value) ==
    IF \E i \in DOMAIN dict : dict[i][1] = key
    THEN [i \in DOMAIN dict |->
             IF dict[i][1] = key THEN <<key, value>> ELSE dict[i]]
    ELSE Append(dict, <<key, value>>)

\* a dict comprehension over items: a later item replaces an earlier one
\* that has the same key
DictOf(items) ==
    [k \in {items[i][1] : i \in DOMAIN items} |->
        LET last == CHOOSE i \in DOMAIN items :
                       /\ items[i][1] = k
                       /\ \A j \in DOMAIN items : items[j][1] = k => j <= i
        IN  items[last][2]]

\* the format strings the model passes: the default "{size}x{size}",
\* "n={size}" and one that does not mention the size
KeyFormats == {<<"{size}", "x", "{size}">>, <<"n=", "{size}">>, <<"all">>}

generatorVars ==
    <<grid_shape, n_accessible_cells, max_tree_depth, do_forks, start_coord,
      p, connection_list, dfsLocals, wilsonLocals, generation_meta, maze_dfs>>

\* lines 271-283: one iteration of the loop over grid_sizes
CollectionIterate ==
    /\ pc = "collection_loop"
    /\ size_iter # <<>>
    /\ LET size == Head(size_iter)
           \* cfg_temp = RasterizedMazeDatasetConfig.load(base_cfg.serialize())
           cfg_temp == Len(heap) + 1
           heap1 == Append(heap, load("RasterizedMazeDatasetConfig",
                                      serialize(heap[base_cfg])))
           heap2 == [heap1 EXCEPT ![cfg_temp] = SetGridN(heap1[cfg_temp], size)]
           \* from_config_augmented, lines 178-186
           cfg_inner == Len(heap2) + 1
           heap3 == Append(heap2, load("MazeDatasetConfig",
                                      serialize(heap2[cfg_temp])))
           base_dataset == from_config(heap3, cfg_inner)
           added_params ==
               [k \in RASTERIZED_CFG_ADDED_PARAMS |-> serialize(heap3[cfg_temp])[k]]
           \* from_base_MazeDataset, lines 200-211
           cfg_out == Len(heap3) + 1
           heap4 == Append(heap3,
                           load("RasterizedMazeDatasetConfig",
                                Merge(serialize(heap3[base_dataset.cfg]),
                                      added_params)))
           dataset == [cfg |-> cfg_out, mazes |-> base_dataset.mazes]
       IN  /\ heap' = heap4
           /\ datasets' = SetItem(datasets, size, dataset)
    /\ size_iter' = Tail(size_iter)
    /\ UNCHANGED <<func, pc, base_cfg, grid_sizes, key_fmt, output,
                   generatorVars, rasterVars>>

\* lines 285-294: the two dicts, keyed by the formatted size
CollectionReturn ==
    /\ pc = "collection_loop"
    /\ size_iter = <<>>
    /\ output' =
          [configs |->
              DictOf([i \in DOMAIN datasets |->
                        <<Format(key_fmt, datasets[i][1]), datasets[i][2].cfg>>]),
           arrays |->
              DictOf([i \in DOMAIN datasets |->
                        <<Format(key_fmt, datasets[i][1]),
                          get_batch(datasets[i][2])>>])]
    /\ pc' = "done"
    /\ UNCHANGED <<func, heap, base_cfg, grid_sizes, key_fmt, size_iter,
                   datasets, generatorVars, rasterVars>>

\* sequences over S of length at most n
RECURSIVE SeqsUpTo(_, _)
SeqsUpTo(S, n) ==
    IF n = 0 THEN {<<>>}
    ELSE LET shorter == SeqsUpTo(S, n - 1)
         IN  shorter \cup {Append(q, x) : q \in shorter, x \in S}

InitCollection ==
    /\ func = "make_numpy_collection"
    /\ pc = "collection_loop"
    /\ base_cfg = 1
    /\ \E grid_n \in 1..MaxGridN, n_mazes \in 1..MaxMazes,
          ric \in BOOLEAN, ext \in BOOLEAN, eao \in BOOLEAN :
          heap = <<[class |-> "RasterizedMazeDatasetConfig",
                    fields |-> [grid_n |-> grid_n,
                                n_mazes |-> n_mazes,
                                remove_isolated_cells |-> ric,
                                extend_pixels |-> ext,
                                endpoints_as_open |-> eao]]>>
    /\ grid_sizes \in SeqsUpTo(1..MaxGridN, MaxSizes)
    /\ key_fmt \in KeyFormats
    /\ size_iter = grid_sizes
    /\ datasets = <<>>
    /\ output = Unbound
    /\ RasterIdle
    /\ grid_shape = Unbound
    /\ n_accessible_cells = None
    /\ max_tree_depth = None
    /\ do_forks = TRUE
    /\ start_coord = NoneCoord
    /\ p = 0
    /\ connection_list = Unbound
    /\ visited_cells = {}
    /\ stack = <<>>
    /\ current_tree_depth = 0
    /\ connected = Unbound
    /\ direction_matrix = Unbound
    /\ cells_left = 0
    /\ visited = {}
    /\ current = Unbound
    /\ start = Unbound
    /\ generation_meta = NoMeta
    /\ maze_dfs = NoMaze

NextCollection == CollectionIterate \/ CollectionReturn

SpecCollection == InitCollection /\ [][NextCollection]_vars

----------------------------------------------------------------------------
(* _remove_isolated_cells (src/maze_dataset/dataset/rasterized.py) *)

\* An image is a function on <<i, j>>, the indices of its first two axes,
\* zero-based; a pixel is the tuple of its three channels.

\* maze_dataset.maze.PixelColors: the colours the images are drawn from
WALL == <<0, 0, 0>>
OPEN == <<255, 255, 255>>
START == <<0, 255, 0>>
PixelColors == {WALL, OPEN, START}

Channels == 1..3

Directions == {"left", "right", "up", "down"}

\* _RIC_PADS: per direction, <<before, after>> for axis 0 and for axis 1
RIC_PADS ==
    [d \in Directions |->
        CASE d = "left" -> <<<<1, 0>>, <<0, 0>>>>
          [] d = "right" -> <<<<0, 1>>, <<0, 0>>>>
          [] d = "up" -> <<<<0, 0>>, <<1, 0>>>>
          [] d = "down" -> <<<<0, 0>>, <<0, 1>>>>]

\* _RIC_SLICES: per direction and axis, <<first index kept, number of
\* entries dropped at the end>>: slice(1, None) is <<1, 0>>, slice(None, -1)
\* is <<0, 1>>, slice(None, None) is <<0, 0>>
RIC_SLICES ==
    [d \in Directions |->
        CASE d = "left" -> <<<<1, 0>>, <<0, 0>>>>
          [] d = "right" -> <<<<0, 1>>, <<0, 0>>>>
          [] d = "up" -> <<<<0, 0>>, <<1, 0>>>>
          [] d = "down" -> <<<<0, 0>>, <<0, 1>>>>]

ImageShapes ==
    {s \in (1..MaxPixels) \X (1..MaxPixels) : s[1] * s[2] <= MaxPixels}

Pixels(shape) == (0..(shape[1] - 1)) \X (0..(shape[2] - 1))

\* image.shape[:2]
ShapeOf(img) ==
    <<Cardinality({i[1] : i \in DOMAIN img}),
      Cardinality({i[2] : i \in DOMAIN img})>>

\* lines 36-44: the mask of one direction.  The comparison with WALL is
\* taken on the slice, padded with True back to the image's shape, and
\* reduced over the channels.
DirectionMask(img, d) ==
    LET shape == ShapeOf(img)
        first == <<RIC_SLICES[d][1][1], RIC_SLICES[d][2][1]>>
        len == <<shape[1] - first[1] - RIC_SLICES[d][1][2],
                 shape[2] - first[2] - RIC_SLICES[d][2][2]>>
        before == <<RIC_PADS[d][1][1], RIC_PADS[d][2][1]>>
        padded(i, j, ch) ==
            LET k0 == i - before[1]
                k1 == j - before[2]
            IN  IF 0 <= k0 /\ k0 < len[1] /\ 0 <= k1 /\ k1 < len[2]
                THEN img[<<k0 + first[1], k1 + first[2]>>][ch] = WALL[ch]
                ELSE TRUE
    IN  [px \in DOMAIN img |-> \A ch \in Channels : padded(px[1], px[2], ch)]

\* line 49: np.all(image != PixelColors.WALL, axis=2)
MaskNonWall(img) ==
    [px \in DOMAIN img |-> \A ch \in Channels : img[px][ch] # WALL[ch]]

\* lines 58-67: the masks combined and applied
remove_isolated_cells(img) ==
    LET mask_non_wall == MaskNonWall(img)
        masks == [d \in Directions |-> DirectionMask(img, d)]
        mask == [px \in DOMAIN img |->
                    /\ mask_non_wall[px]
                    /\ masks["left"][px]
                    /\ masks["right"][px]
                    /\ masks["up"][px]
                    /\ masks["down"][px]]
    IN  [px \in DOMAIN img |-> IF mask[px] THEN WALL ELSE img[px]]

\* one call of _remove_isolated_cells (lines 29-67)
RemoveIsolatedCells ==
    /\ pc = "ric_entry"
    /\ output_image' = remove_isolated_cells(image)
    /\ pc' = "done"
    /\ UNCHANGED <<func, image, collectionVars, generatorVars>>

InitRaster ==
    /\ func = "_remove_isolated_cells"
    /\ pc = "ric_entry"
    /\ \E shape \in ImageShapes : image \in [Pixels(shape) -> PixelColors]
    /\ output_image = Unbound
    /\ CollectionIdle
    /\ grid_shape = Unbound
    /\ n_accessible_cells = None
    /\ max_tree_depth = None
    /\ do_forks = TRUE
    /\ start_coord = NoneCoord
    /\ p = 0
    /\ connection_list = Unbound
    /\ visited_cells = {}
    /\ stack = <<>>
    /\ current_tree_depth = 0
    /\ connected = Unbound
    /\ direction_matrix = Unbound
    /\ cells_left = 0
    /\ visited = {}
    /\ current = Unbound
    /\ start = Unbound
    /\ generation_meta = NoMeta
    /\ maze_dfs = NoMaze

NextRaster == RemoveIsolatedCells

SpecRaster == InitRaster /\ [][NextRaster]_vars

----------------------------------------------------------------------------
(* Any generator *)

\* gen_dfs and gen_wilson alone
InitDfsWilson == InitDfs \/ InitWilson

NextDfsWilson == NextDfs \/ NextWilson

SpecDfsWilson == InitDfsWilson /\ [][NextDfsWilson]_vars

Init == InitDfs \/ InitWilson \/ InitPerc \/ InitHybrid

Next ==
    \/ DfsEntry
    \/ DfsCarve
    \/ DfsBacktrack
    \/ DfsReturn
    \/ WilsonEntry
    \/ WilsonPickStart
    \/ WilsonWalkStep
    \/ WilsonWalkReachedConnected
    \/ WilsonWalkLoopDetected
    \/ WilsonRetraceStep
    \/ WilsonRetraceEnd
    \/ WilsonReturn
    \/ PercAssertFails
    \/ PercGenerate
    \/ HybridEntry
    \/ HybridPercolate

Spec == Init /\ [][Next]_vars

----------------------------------------------------------------------------
(* Properties *)

Built == connection_list # Unbound

Returned(f) == func = f /\ pc = "done"

OpenEdges(cl) == {i \in DOMAIN cl : cl[i]}

NumOpen(cl) == Cardinality(OpenEdges(cl))

\* number of open entries of cl that touch the cell c
Degree(cl, c) ==
    Cardinality({i \in OpenEdges(cl) :
        \/ <<i[2], i[3]>> = c
        \/ i[1] = 0 /\ <<i[2] + 1, i[3]>> = c
        \/ i[1] = 1 /\ <<i[2], i[3] + 1>> = c})

\* the two cells an entry of a connection list joins
EdgeEnds(i) ==
    {<<i[2], i[3]>>, IF i[1] = 0 THEN <<i[2] + 1, i[3]>> ELSE <<i[2], i[3] + 1>>}

\* entries whose far end lies outside the grid
BoundaryEdges(shape) ==
    {i \in Indices(shape) :
        \/ i[1] = 0 /\ i[2] = shape[1] - 1
        \/ i[1] = 1 /\ i[3] = shape[2] - 1}

\* cells reachable from c over open edges
Reach(cl, shape, c) == Walk(cl, shape, {c}, {c})

NumComponents(cl, shape) ==
    Cardinality({Reach(cl, shape, c) : c \in Cells(shape)})

\* no cycle: a forest has as many edges as cells minus components
Acyclic(cl, shape) ==
    NumOpen(cl) + NumComponents(cl, shape) = Cardinality(Cells(shape))

\* S holds c and no open edge leaves S
ClosedAround(cl, shape, S, c) ==
    /\ c \in S
    /\ \A i \in OpenEdges(cl) :
          EdgeEnds(i) \subseteq Cells(shape) =>
             (EdgeEnds(i) \cap S # {} => EdgeEnds(i) \subseteq S)

\* the least set that holds c and that no open edge leaves
LeastClosed(cl, shape, c) ==
    {x \in Cells(shape) :
        \A S \in SUBSET Cells(shape) : ClosedAround(cl, shape, S, c) => x \in S}

\* C1: in the maze any of the four generators returns, no entry of the last
\* row is open downwards and no entry of the last column is open rightwards.
BoundaryInvariant ==
    pc = "done" =>
       /\ \A c \in 0..(grid_shape[2] - 1) :
             ~connection_list[<<0, grid_shape[1] - 1, c>>]
       /\ \A r \in 0..(grid_shape[1] - 1) :
             ~connection_list[<<1, r, grid_shape[2] - 1>>]

BoundaryInvariantWitness ==
    /\ pc = "done"
    /\ func = "gen_dfs"
    /\ grid_shape = <<2, 2>>
    /\ NumOpen(connection_list) = 3

\* C2: the maze gen_wilson returns is a spanning tree of the grid: metadata
\* fully_connected is True, there are rows*cols - 1 open edges, and every
\* cell is reachable from every other cell.
WilsonSpanningTree ==
    Returned("gen_wilson") =>
       /\ generation_meta.fully_connected
       /\ NumOpen(connection_list) = grid_shape[1] * grid_shape[2] - 1
       /\ \A c \in Cells(grid_shape) :
             Reach(connection_list, grid_shape, c) = Cells(grid_shape)

\* C3: at every point of gen_wilson, after every retrace step as well as in
\* the result, the open edges contain no cycle.
WilsonAcyclic ==
    (func = "gen_wilson" /\ Built) => Acyclic(connection_list, grid_shape)

WilsonAcyclicWitness ==
    /\ func = "gen_wilson"
    /\ pc = "wilson_retrace"
    /\ grid_shape = <<2, 2>>
    /\ NumOpen(connection_list) = 2

\* C4: with do_forks = False the maze gen_dfs returns is a simple path from
\* start_coord: every cell touches at most 2 open edges, start_coord at most
\* 1, and the open edges are one fewer than the visited cells.
DfsNoForksPath ==
    (Returned("gen_dfs") /\ ~do_forks) =>
       /\ \A c \in Cells(grid_shape) : Degree(connection_list, c) <= 2
       /\ Degree(connection_list, start_coord) <= 1
       /\ NumOpen(connection_list) = Cardinality(visited_cells) - 1

DfsNoForksPathWitness ==
    /\ Returned("gen_dfs")
    /\ ~do_forks
    /\ grid_shape = <<3, 3>>
    /\ NumOpen(connection_list) >= 6

\* C5 as stated: the visited_cells recorded by gen_dfs never has more than
\* n_accessible_cells elements, for every n_accessible_cells >= 0.
DfsCellCountBound ==
    Returned("gen_dfs") =>
       Cardinality(generation_meta.visited_cells)
          <= generation_meta.n_accessible_cells

\* C5 amended: the visited_cells recorded by gen_dfs has at most
\* max(1, n_accessible_cells) elements: start_coord is always visited, so
\* the bound n_accessible_cells holds from n_accessible_cells = 1 on.
DfsCellCountBoundFromOne ==
    Returned("gen_dfs") =>
       Cardinality(generation_meta.visited_cells)
          <= Max(1, generation_meta.n_accessible_cells)

DfsCellCountBoundWitness ==
    /\ Returned("gen_dfs")
    /\ grid_shape = <<3, 3>>
    /\ generation_meta.n_accessible_cells = 4
    /\ Cardinality(generation_meta.visited_cells) = 4

\* C6: at every iteration of gen_dfs's loop and in its result the open edges
\* form a tree over the visited cells: one edge fewer than visited cells,
\* every open edge joins two visited cells, and the cells reachable from
\* start_coord are exactly the visited ones.
DfsSpanningSubtree ==
    (func = "gen_dfs" /\ pc \in {"dfs_loop", "done"}) =>
       /\ NumOpen(connection_list) = Cardinality(visited_cells) - 1
       /\ \A i \in OpenEdges(connection_list) : EdgeEnds(i) \subseteq visited_cells
       /\ Reach(connection_list, grid_shape, start_coord) = visited_cells

DfsSpanningSubtreeWitness ==
    /\ func = "gen_dfs"
    /\ pc = "dfs_loop"
    /\ do_forks
    /\ grid_shape = <<3, 3>>
    /\ Cardinality(visited_cells) = 7
    /\ Len(stack) = 3

\* the call of the corridor scenario: a 3 x 3 grid from the corner, no
\* forks, 9 accessible cells, default depth
CorridorScenario ==
    /\ Returned("gen_dfs")
    /\ grid_shape = <<3, 3>>
    /\ start_coord = <<0, 0>>
    /\ ~do_forks
    /\ n_accessible_cells = 9
    /\ max_tree_depth = 18

\* C7 as stated: the corridor scenario always ends with exactly 8 open
\* edges, every cell of degree at most 2 and fully_connected = True.
DfsCorridorComplete ==
    CorridorScenario =>
       /\ NumOpen(connection_list) = 8
       /\ \A c \in Cells(grid_shape) : Degree(connection_list, c) <= 2
       /\ generation_meta.fully_connected

\* C7 amended: the corridor scenario ends with 4 to 8 open edges and every
\* cell of degree at most 2; fully_connected is True exactly when the
\* corridor covered the grid, that is when there are 8 open edges.
DfsCorridorPartial ==
    CorridorScenario =>
       /\ NumOpen(connection_list) \in 4..8
       /\ \A c \in Cells(grid_shape) : Degree(connection_list, c) <= 2
       /\ generation_meta.fully_connected <=> (NumOpen(connection_list) = 8)

DfsCorridorWitness ==
    /\ CorridorScenario
    /\ NumOpen(connection_list) = 8
    /\ generation_meta.fully_connected

\* C8: gen_percolation with p = 0 returns no open edge, and with p = 1 it
\* returns every edge open except the boundary edges.
PercolationExtremes ==
    Returned("gen_percolation") =>
       /\ p = 0 => OpenEdges(connection_list) = {}
       /\ p = PDenom =>
             OpenEdges(connection_list) =
                Indices(grid_shape) \ BoundaryEdges(grid_shape)

PercolationExtremesWitness ==
    /\ Returned("gen_percolation")
    /\ p = PDenom
    /\ grid_shape = <<2, 2>>
    /\ NumOpen(connection_list) = 4

\* C9: visited_cells of gen_percolation's metadata is exactly the set of
\* cells reachable from start_coord over open edges taken in either
\* direction; it holds start_coord, and on a 2 x 2 grid with p = 0 and start
\* (0, 0) it is {(0, 0)}.
PercolationComponent ==
    Returned("gen_percolation") =>
       /\ generation_meta.visited_cells =
             LeastClosed(connection_list, grid_shape, start_coord)
       /\ start_coord \in generation_meta.visited_cells
       /\ (grid_shape = <<2, 2>> /\ p = 0 /\ start_coord = <<0, 0>>) =>
             generation_meta.visited_cells = {<<0, 0>>}

PercolationComponentWitness ==
    /\ Returned("gen_percolation")
    /\ grid_shape = <<2, 2>>
    /\ start_coord = <<1, 1>>
    /\ generation_meta.visited_cells = {<<1, 1>>, <<0, 1>>, <<0, 0>>}

\* C10: every edge open in the maze gen_dfs built inside gen_dfs_percolation
\* is open in the returned maze, and the returned visited_cells is a
\* superset of the DFS phase's visited_cells.
HybridMonotone ==
    Returned("gen_dfs_percolation") =>
       /\ OpenEdges(maze_dfs.connection_list) \subseteq OpenEdges(connection_list)
       /\ maze_dfs.generation_meta.visited_cells
             \subseteq generation_meta.visited_cells

HybridMonotoneWitness ==
    /\ Returned("gen_dfs_percolation")
    /\ grid_shape = <<2, 2>>
    /\ NumOpen(maze_dfs.connection_list) = 1
    /\ NumOpen(connection_list) = 3
    /\ Cardinality(generation_meta.visited_cells) = 4

\* C11: gen_percolation called with p outside [0, 1] never returns a maze:
\* the call ends in an error with no sample drawn, no connection list and no
\* metadata built.
PercRejectsInvalidP ==
    (func = "gen_percolation" /\ ~(0 <= p /\ p <= PDenom)) =>
       /\ pc \in {"perc_entry", "error"}
       /\ connection_list = Unbound
       /\ generation_meta = NoMeta

PercRejectsInvalidPWitness ==
    /\ func = "gen_percolation"
    /\ pc = "error"
    /\ p = PDenom + 1
    /\ grid_shape = <<2, 2>>

DefaultStartAnyCell ==
    /\ (func \in {"gen_dfs", "gen_percolation", "gen_dfs_percolation"}
           /\ start_coord # NoneCoord) => InBounds(grid_shape, start_coord)
    /\ (func = "gen_dfs" /\ pc = "dfs_entry" /\ start_coord = NoneCoord) =>
          \A c \in Cells(grid_shape) : ENABLED (DfsEntry /\ start_coord' = c)
    /\ (pc = "perc_entry" /\ ValidP(p) /\ start_coord = NoneCoord) =>
          \A c \in Cells(grid_shape) : ENABLED (PercGenerate /\ start_coord' = c)
    /\ (pc = "hybrid_entry" /\ start_coord = NoneCoord) =>
          \A c \in Cells(grid_shape) : ENABLED (HybridEntry /\ start_coord' = c)

\* the cells within k open edges of the cells of from
RECURSIVE Ball(_, _, _, _)
Ball(cl, shape, from, k) ==
    IF k = 0 THEN from
    ELSE Ball(cl, shape,
              from \cup UNION {OpenNeighbors(cl, shape, c) : c \in from}, k - 1)

\* the stack is a path of open edges that starts at start_coord
StackIsTreePath ==
    /\ stack # <<>> => stack[1] = start_coord
    /\ \A i \in 1..(Len(stack) - 1) :
          Linked(connection_list, grid_shape, stack[i], stack[i + 1])

DfsDepthInvariant ==
    (func = "gen_dfs" /\ pc \in {"dfs_loop", "done"}) =>
       /\ do_forks =>
             /\ pc = "dfs_loop" => /\ current_tree_depth = Len(stack)
                                   /\ StackIsTreePath
             /\ visited_cells \subseteq
                   Ball(connection_list, grid_shape, {start_coord},
                        max_tree_depth \div 2)
       /\ ~do_forks =>
             Cardinality(visited_cells) <= (max_tree_depth \div 2) + 1

DfsCarveWithinDepth ==
    (pc = "dfs_loop" /\ connection_list' # connection_list) =>
       /\ 2 * current_tree_depth <= max_tree_depth
       /\ \E c \in visited_cells' \ visited_cells :
             OpenEdges(connection_list') \ OpenEdges(connection_list) \subseteq
                {e \in OpenEdges(connection_list') :
                    EdgeEnds(e) = {stack[Len(stack)], c}}

\* C16: gen_dfs opens an edge from the popped cell only while
\* 2 * current_tree_depth <= max_tree_depth; with forks the counter is the
\* stack length, the stack is the tree path from start_coord to the popped
\* cell, and every visited cell is within max_tree_depth \div 2 open edges of
\* start_coord; without forks at most max_tree_depth \div 2 + 1 cells are
\* visited.
DfsDepthLimit == []DfsDepthInvariant /\ [][DfsCarveWithinDepth]_vars

DfsDepthLimitWitness ==
    /\ Returned("gen_dfs")
    /\ do_forks
    /\ grid_shape = <<3, 3>>
    /\ n_accessible_cells = 9
    /\ max_tree_depth = 4
    /\ Cardinality(visited_cells) \in 3..8
    /\ visited_cells \notin
          SUBSET Ball(connection_list, grid_shape, {start_coord}, 1)

\* C17: gen_dfs called with do_forks = True and the default bounds
\* (n_accessible_cells = rows * cols, max_tree_depth = 2 * rows * cols) never
\* has a carve blocked by the depth bound, and returns a maze with
\* rows * cols - 1 open edges, every cell visited and fully_connected True.
DfsDefaultsCoverGrid ==
    LET n_total_cells == grid_shape[1] * grid_shape[2]
    IN  (/\ func = "gen_dfs"
         /\ do_forks
         /\ pc \in {"dfs_loop", "done"}
         /\ n_accessible_cells = n_total_cells
         /\ max_tree_depth = 2 * n_total_cells) =>
           /\ pc = "dfs_loop" =>
                 DepthAllows(current_tree_depth, max_tree_depth)
           /\ pc = "done" =>
                 /\ NumOpen(connection_list) = n_total_cells - 1
                 /\ visited_cells = Cells(grid_shape)
                 /\ generation_meta.visited_cells = Cells(grid_shape)
                 /\ generation_meta.fully_connected

DfsDefaultsCoverGridWitness ==
    /\ Returned("gen_dfs")
    /\ do_forks
    /\ grid_shape = <<3, 3>>
    /\ n_accessible_cells = 9
    /\ max_tree_depth = 18
    /\ NumOpen(connection_list) = 8
    /\ \E c \in Cells(grid_shape) : Degree(connection_list, c) = 3

\* C18: every random walk of gen_wilson ends on a cell that was marked
\* connected before the walk began, and the sentinel is written only to such
\* a cell.
WilsonWalkEndsConnected ==
    [][(pc = "wilson_walk" /\ pc' = "wilson_retrace") =>
          /\ connected[current]
          /\ \A c \in Cells(grid_shape) :
                (direction_matrix'[c] = Sentinel /\ direction_matrix[c] # Sentinel)
                   => connected[c]]_vars

\* cells of the grid not yet marked connected
Unconnected == {c \in Cells(grid_shape) : ~connected[c]}

\* a measure of the work left: it is never negative and every step lowers it
Rank ==
    LET n == grid_shape[1] * grid_shape[2]
        k == n + 4
        u == Cardinality(Unconnected)
    IN  CASE pc = "dfs_entry" -> 2 * n + 2
          [] pc = "dfs_loop" ->
                2 * (n - Cardinality(visited_cells)) + Len(stack) + 1
          [] pc = "wilson_entry" -> k * n + k
          [] pc = "wilson_outer" -> k * u + k - 1
          [] pc = "wilson_walk" -> k * u + (n - Cardinality(visited)) + 2
          [] pc = "wilson_retrace" ->
                k * u + (IF connected[current] THEN k ELSE 1)
          [] OTHER -> 0

TerminationInvariant ==
    /\ Rank >= 0
    /\ pc # "done" => ENABLED NextDfsWilson
    /\ pc \in {"wilson_outer", "wilson_walk", "wilson_retrace"} =>
          /\ cells_left = Cardinality(Unconnected)
          /\ cells_left >= 0
          /\ Cardinality(visited) <= grid_shape[1] * grid_shape[2]
    /\ (pc = "wilson_outer" /\ start # Unbound) => connected[start]
    /\ pc = "wilson_walk" => ~connected[start]
    /\ pc = "wilson_retrace" => (connected[start] \/ current = start)

TerminationStep ==
    /\ Rank' < Rank
    /\ (pc = "dfs_loop" /\ pc' = "dfs_loop") =>
          \/ Cardinality(visited_cells') = Cardinality(visited_cells) + 1
          \/ /\ Len(stack') = Len(stack) - 1
             /\ visited_cells' = visited_cells
    /\ (pc = "wilson_walk" /\ pc' = "wilson_walk") =>
          Cardinality(visited') = Cardinality(visited) + 1

\* C19: gen_dfs and gen_wilson terminate: no call is stuck before it returns,
\* every step lowers a non-negative measure, each DFS iteration visits a new
\* cell or shrinks the stack, each Wilson walk step adds a new cell to the
\* walk (at most rows * cols steps), each outer iteration marks its start
\* cell connected, and cells_left is the number of unconnected cells.
GeneratorsTerminate == []TerminationInvariant /\ [][TerminationStep]_vars

GeneratorsTerminateWitness ==
    /\ Returned("gen_wilson")
    /\ grid_shape = <<2, 3>>
    /\ cells_left = 0
    /\ Unconnected = {}
    /\ NumOpen(connection_list) = 4

\* C20: the retrace of gen_wilson stands only on cells of the current walk
\* (whose direction was written during that walk), and when it ends it has
\* gone through every cell of the walk.
WilsonRetraceFollowsWalk ==
    [][/\ (pc = "wilson_retrace" /\ connected' # connected) =>
             current \in visited
       /\ (pc = "wilson_retrace" /\ pc' = "wilson_outer") =>
             \A c \in visited : connected'[c]]_vars

\* C13: gen_dfs and gen_wilson called with a grid shape that has a
\* non-positive dimension end in an error: the call never returns and no
\* maze metadata is built.
BadShapeRejected ==
    (grid_shape[1] <= 0 \/ grid_shape[2] <= 0) =>
       /\ pc # "done"
       /\ generation_meta = NoMeta

\* the entries of grid_sizes are pairwise different
DistinctSizes ==
    \A i, j \in DOMAIN grid_sizes : grid_sizes[i] = grid_sizes[j] => i = j

\* key_fmt gives different sizes of grid_sizes different keys
KeysDistinct ==
    \A i, j \in DOMAIN grid_sizes :
       Format(key_fmt, grid_sizes[i]) = Format(key_fmt, grid_sizes[j]) =>
          grid_sizes[i] = grid_sizes[j]

\* the batch of a dataset of n mazes of the given size: n problems, then
\* n solutions, in maze order
IsBatchOf(array, size, n) ==
    /\ Len(array) = 2 * n
    /\ \A i \in 1..n :
          /\ array[i] =
                [kind |-> "problem", maze |-> [grid_n |-> size, index |-> i]]
          /\ array[n + i] =
                [kind |-> "solution", maze |-> [grid_n |-> size, index |-> i]]

\* what the returned dict holds for the sizes of grid_sizes
CollectionEntries ==
    LET keys == {Format(key_fmt, grid_sizes[i]) : i \in DOMAIN grid_sizes}
    IN  /\ DOMAIN output = {"configs", "arrays"}
        /\ DOMAIN output.configs = keys
        /\ DOMAIN output.arrays = keys
        /\ Cardinality(keys) = Len(grid_sizes)
        /\ \A i \in DOMAIN grid_sizes :
              LET size == grid_sizes[i]
                  key == Format(key_fmt, size)
                  cfg == heap[output.configs[key]]
              IN  /\ cfg.class = "RasterizedMazeDatasetConfig"
                  /\ cfg.fields =
                        [heap[base_cfg].fields EXCEPT !.grid_n = size]
                  /\ IsBatchOf(output.arrays[key], size,
                               heap[base_cfg].fields.n_mazes)

CollectionDone == func = "make_numpy_collection" /\ pc = "done"

\* the object base_cfg refers to keeps its value
BaseCfgKept == heap # <<>> => heap'[base_cfg] = heap[base_cfg]

\* C15 as stated: for distinct grid sizes and any key_fmt the result holds
\* one entry per size in "configs" and in "arrays", under the key
\* key_fmt.format(size=size): a RasterizedMazeDatasetConfig with that grid_n
\* and that size's batch; base_cfg is not modified.
MakeNumpyCollectionAnyFormat ==
    /\ [](CollectionDone /\ DistinctSizes => CollectionEntries)
    /\ [][BaseCfgKept]_vars

\* C15, amended: the same, for a key_fmt that gives the distinct grid sizes
\* distinct keys (as the default "{size}x{size}" does).
MakeNumpyCollection ==
    /\ [](CollectionDone /\ DistinctSizes /\ KeysDistinct => CollectionEntries)
    /\ [][BaseCfgKept]_vars

MakeNumpyCollectionWitness ==
    /\ CollectionDone
    /\ grid_sizes = <<2, 3>>
    /\ key_fmt = <<"{size}", "x", "{size}">>
    /\ heap[base_cfg].fields.grid_n = 1
    /\ heap[base_cfg].fields.n_mazes = 2
    /\ DOMAIN output.configs = {"2x2", "3x3"}
    /\ heap[output.configs["3x3"]].fields.grid_n = 3
    /\ Len(output.arrays["2x2"]) = 4

\* C21: in the maze gen_dfs_percolation returns, func_name is
\* "gen_dfs_percolation", percolation_p is the given p, visited_cells is the
\* connected component of the DFS phase's start_coord over the merged
\* connection list, and grid_shape, start_coord, n_accessible_cells,
\* max_tree_depth and fully_connected are as the DFS phase wrote them.
HybridMetaUpdate ==
    Returned("gen_dfs_percolation") =>
       LET dfs_meta == maze_dfs.generation_meta
       IN  /\ DOMAIN generation_meta = DOMAIN dfs_meta \cup {"percolation_p"}
           /\ dfs_meta.func_name = "gen_dfs"
           /\ generation_meta.func_name = "gen_dfs_percolation"
           /\ generation_meta.percolation_p = p
           /\ generation_meta.visited_cells =
                 LeastClosed(connection_list, grid_shape, dfs_meta.start_coord)
           /\ \A k \in {"grid_shape", "start_coord", "n_accessible_cells",
                        "max_tree_depth", "fully_connected"} :
                 generation_meta[k] = dfs_meta[k]

HybridMetaUpdateWitness ==
    /\ Returned("gen_dfs_percolation")
    /\ grid_shape = <<2, 2>>
    /\ p = PDenom
    /\ maze_dfs.generation_meta.n_accessible_cells = 2
    /\ Cardinality(maze_dfs.generation_meta.visited_cells) = 2
    /\ Cardinality(generation_meta.visited_cells) = 4
    /\ generation_meta.fully_connected

\* the pixel at px, WALL for a position outside the image
PixelOrWall(img, px) == IF px \in DOMAIN img THEN img[px] ELSE WALL

\* px is not a wall and its four neighbours are
Isolated(img, px) ==
    /\ img[px] # WALL
    /\ \A d \in NEIGHBORS_MASK :
          PixelOrWall(img, <<px[1] + d[1], px[2] + d[2]>>) = WALL

\* C22: _remove_isolated_cells sets every non-wall pixel whose four
\* neighbours are all WALL (positions outside the image count as wall) to
\* WALL and returns every other pixel unchanged.
RemovesIsolatedCells ==
    (func = "_remove_isolated_cells" /\ pc = "done") =>
       /\ DOMAIN output_image = DOMAIN image
       /\ \A px \in DOMAIN image :
             output_image[px] =
                IF Isolated(image, px) THEN WALL ELSE image[px]

\* C23: the batch get_batch(None) returns for a dataset of n mazes has n
\* entries, and entry i is the pair <<problem, solution>> that
\* __getitem__(i) returns for maze i.
BatchPairsPerMaze ==
    (CollectionDone /\ KeysDistinct) =>
       \A d \in DOMAIN datasets :
          LET dataset == datasets[d][2]
              batch == output.arrays[Format(key_fmt, datasets[d][1])]
          IN  /\ Len(batch) = Len(dataset.mazes)
              /\ \A i \in 1..Len(dataset.mazes) : batch[i] = getitem(dataset, i)

=============================================================================
